---- MODULE Spec2Model ----
(***************************************************************************)
(* Model of cybersecurity/grover_gaps.ipynb: the circuit builders grover,  *)
(* amplitude_callback, oracle, PhiMultiply, Multiply and factorize, and    *)
(* the result-interpretation cell.  A circuit is the sequence of           *)
(* instructions the builder has appended so far.  The notebook is an       *)
(* exercise sheet: the steps it marks "TODO" append nothing, and are       *)
(* modelled as appending nothing.                                          *)
(***************************************************************************)
EXTENDS Integers, Sequences, FiniteSets

VARIABLES fn, pc, args, locals, circ, ret

vars == <<fn, pc, args, locals, circ, ret>>

(* ------------------------------ bounds -------------------------------- *)

\* largest iteration count passed to grover and factorize
MaxIter == 2
\* largest register size nx, ny passed to factorize, PhiMultiply, Multiply
MaxReg == 2
\* largest integer N passed to factorize
MaxN == 7
\* longest bitstring passed to oracle and measured as a histogram key
MaxBits == 2
\* most distinct keys in a histogram
MaxKeys == 2
\* most shots recorded for one histogram key
MaxShots == 2

(* --------------------------- Python helpers --------------------------- *)

RECURSIVE Pow2(_)
Pow2(n) == IF n <= 0 THEN 1 ELSE 2 * Pow2(n - 1)

\* a range that wrongly includes its end point b (an off-by-one slip)
PyRangeInclusive(a, b) == IF b < a THEN <<>> ELSE [i \in 1..(b - a + 1) |-> a + i - 1]

\* list(range(a, b)): the integers a, a+1, ..., b-1; empty when b <= a
PyRange(a, b) == IF b <= a THEN <<>> ELSE [i \in 1..(b - a) |-> a + i - 1]

\* s[::-1]
PyReverse(s) == [i \in 1..Len(s) |-> s[Len(s) + 1 - i]]

\* s[1:], a slice that keeps the "b" of the "0b" prefix (an off-by-one slip)
PySliceFrom1(s) == SubSeq(s, 2, Len(s))

\* s[2:]
PySliceFrom2(s) == SubSeq(s, 3, Len(s))

\* the binary digits of n >= 0 as characters, most significant first
RECURSIVE BinDigits(_)
BinDigits(n) ==
    IF n < 2 THEN <<IF n = 1 THEN "1" ELSE "0">>
    ELSE Append(BinDigits(n \div 2), IF n % 2 = 1 THEN "1" ELSE "0")

\* bin(N): "0b..." or "-0b..."
PyBin(N) ==
    IF N < 0 THEN <<"-", "0", "b">> \o BinDigits(0 - N)
    ELSE <<"0", "b">> \o BinDigits(N)

\* int(c) for a one-character string: a ValueError unless c is a digit
IntCharRaises(c) == c \notin {"0", "1"}

IntChar(c) == IF c = "1" THEN 1 ELSE 0

\* int(s, 2): s read as a binary numeral, first character most significant
RECURSIVE PyIntBase2(_)
PyIntBase2(s) ==
    IF Len(s) = 0 THEN 0
    ELSE 2 * PyIntBase2(SubSeq(s, 1, Len(s) - 1)) + IntChar(s[Len(s)])

\* bitarray.to01(): the bits as a string of "0"/"1" in index order
to01(bits) == [i \in 1..Len(bits) |-> IF bits[i] = 1 THEN "1" ELSE "0"]

(* ------------------------------ circuits ------------------------------ *)

NoCirc == "none"

Instr(op, qubits, bs, z) == [op |-> op, qubits |-> qubits, bs |-> bs, z |-> z]

\* amplitude_callback(bitstring)(i): a circuit holding Amplitude(bitstring) pushed on i
amplitude_callback(bitstring, i) == <<Instr("Amplitude", <<>>, bitstring, i)>>

BitStrings(n) == [1..n -> {0, 1}]

(* ------------------------------- Init --------------------------------- *)

Idle == [none |-> TRUE]

Init ==
    /\ fn = "idle"
    /\ pc = "idle"
    /\ args = Idle
    /\ locals = Idle
    /\ circ = NoCirc
    /\ ret = NoCirc

\* a finished (or failed) call is forgotten and the next one may start
Return ==
    /\ pc \in {"done", "raised"}
    /\ fn' = "idle"
    /\ pc' = "idle"
    /\ args' = Idle
    /\ locals' = Idle
    /\ circ' = NoCirc
    /\ ret' = NoCirc

(* ------------------------------ grover -------------------------------- *)

\* the oracle circuits handed to grover: what oracle(b) returns, and a one-gate circuit
OracleCircs == {<<>>, <<Instr("MCZ", <<0, 1>>, <<>>, 0 - 1)>>}

RECURSIVE MaxQubit(_)
MaxQubit(c) ==
    IF Len(c) = 0 THEN 0 - 1
    ELSE LET m == MaxQubit(Tail(c))
             q == c[1].qubits
             h == IF Len(q) = 0 THEN 0 - 1
                  ELSE CHOOSE a \in {q[i] : i \in 1..Len(q)} :
                           \A b \in {q[i] : i \in 1..Len(q)} : b <= a
         IN IF h > m THEN h ELSE m

\* Circuit.num_qubits()
num_qubits(c) == MaxQubit(c) + 1

grover_call ==
    /\ fn = "idle"
    /\ \E iterations \in 0..MaxIter, oc \in OracleCircs, cb \in BOOLEAN,
          bs \in BitStrings(MaxBits) :
           args' = [iterations |-> iterations, oracle_circ |-> oc,
                    callback |-> cb, bitstring |-> bs]
    /\ fn' = "grover"
    /\ pc' = "loop"
    /\ locals' = [nq |-> num_qubits(args'.oracle_circ), i |-> 0]
    /\ circ' = <<>>
    /\ UNCHANGED ret

\* one pass of "for i in range(iterations)": the callback's circuit is
\* appended; the oracle and diffusion steps are TODO and append nothing
grover_iter ==
    /\ fn = "grover"
    /\ pc = "loop"
    /\ locals.i < args.iterations
    /\ circ' = IF args.callback
               THEN circ \o amplitude_callback(args.bitstring, locals.i)
               ELSE circ
    /\ locals' = [locals EXCEPT !.i = @ + 1]
    /\ UNCHANGED <<fn, pc, args, ret>>

grover_return ==
    /\ fn = "grover"
    /\ pc = "loop"
    /\ locals.i >= args.iterations
    /\ pc' = "done"
    /\ ret' = circ
    /\ UNCHANGED <<fn, args, locals, circ>>

(* ------------------------------ oracle -------------------------------- *)

oracle_call ==
    /\ fn = "idle"
    /\ \E n \in 1..MaxBits : \E b \in BitStrings(n) : args' = [bitstring |-> b]
    /\ fn' = "oracle"
    /\ pc' = "body"
    /\ locals' = [nq |-> Len(args'.bitstring)]
    /\ circ' = <<>>
    /\ UNCHANGED ret

\* the three steps (X gates, phase flip, uncompute) are TODO: nothing is appended
oracle_return ==
    /\ fn = "oracle"
    /\ pc = "body"
    /\ pc' = "done"
    /\ ret' = circ
    /\ UNCHANGED <<fn, args, locals, circ>>

(* ---------------------------- PhiMultiply ---------------------------- *)

\* angle = 2*pi / 2.0**e is kept as its exponent e.  angle % (2*pi) == 0
\* exactly when 2*pi / 2**e is a whole number of turns, that is when e <= 0
AngleIsMultipleOf2Pi(e) == e <= 0

PhiMultiply_call ==
    /\ fn = "idle"
    /\ \E nx \in 0..MaxReg, ny \in 0..MaxReg, nz \in 0..(2 * MaxReg + 1) :
           args' = [X |-> PyRange(0, nx), Y |-> PyRange(nx, nx + ny),
                    Z |-> PyRange(nx + ny, nx + ny + nz)]
    /\ fn' = "PhiMultiply"
    /\ pc' = "for_j"
    /\ locals' = [nx |-> Len(args'.X), ny |-> Len(args'.Y), nz |-> Len(args'.Z),
                  j |-> 0, i |-> 0, k |-> 0,
                  visited |-> FALSE, e |-> 0, zk |-> 0, taken |-> FALSE]
    /\ circ' = <<>>
    /\ UNCHANGED ret

\* for j in range(nx): next j
PhiMultiply_for_j ==
    /\ fn = "PhiMultiply"
    /\ pc = "for_j"
    /\ locals.j < locals.nx
    /\ locals' = [locals EXCEPT !.i = 0]
    /\ pc' = "for_i"
    /\ UNCHANGED <<fn, args, circ, ret>>

\* for i in range(ny): next i, k starts at i + j
PhiMultiply_for_i ==
    /\ fn = "PhiMultiply"
    /\ pc = "for_i"
    /\ locals.i < locals.ny
    /\ locals' = [locals EXCEPT !.k = locals.i + locals.j]
    /\ pc' = "for_k"
    /\ UNCHANGED <<fn, args, circ, ret>>

\* range(ny) is exhausted: back to the loop over j
PhiMultiply_end_i ==
    /\ fn = "PhiMultiply"
    /\ pc = "for_i"
    /\ locals.i >= locals.ny
    /\ locals' = [locals EXCEPT !.j = @ + 1]
    /\ pc' = "for_j"
    /\ UNCHANGED <<fn, args, circ, ret>>

\* the body of "for k in range(i+j, nz)": the angle is computed and tested;
\* the controlled P gate of the taken branch is TODO ("pass"): nothing is appended
PhiMultiply_body ==
    /\ fn = "PhiMultiply"
    /\ pc = "for_k"
    /\ locals.k < locals.nz
    /\ LET e == locals.k - locals.j - locals.i + 1
       IN locals' = [locals EXCEPT !.visited = TRUE, !.e = e, !.zk = locals.k,
                                   !.taken = ~AngleIsMultipleOf2Pi(e),
                                   !.k = @ + 1]
    /\ circ' = circ
    /\ UNCHANGED <<fn, pc, args, ret>>

\* range(i+j, nz) is exhausted: back to the loop over i
PhiMultiply_end_k ==
    /\ fn = "PhiMultiply"
    /\ pc = "for_k"
    /\ locals.k >= locals.nz
    /\ locals' = [locals EXCEPT !.i = @ + 1]
    /\ pc' = "for_i"
    /\ UNCHANGED <<fn, args, circ, ret>>

PhiMultiply_return ==
    /\ fn = "PhiMultiply"
    /\ pc = "for_j"
    /\ locals.j >= locals.nx
    /\ pc' = "done"
    /\ ret' = circ
    /\ UNCHANGED <<fn, args, locals, circ>>

(* ------------------------------ Multiply ------------------------------ *)

Multiply_call ==
    /\ fn = "idle"
    /\ \E nx \in 0..MaxReg, ny \in 0..MaxReg :
           args' = [X |-> PyRange(0, nx), Y |-> PyRange(nx, nx + ny),
                    Z |-> PyRange(nx + ny, nx + ny + (nx + ny + 1))]
    /\ fn' = "Multiply"
    /\ pc' = "body"
    /\ locals' = [nx |-> Len(args'.X), ny |-> Len(args'.Y), nz |-> Len(args'.Z)]
    /\ circ' = <<>>
    /\ UNCHANGED ret

\* QFT on Z, PhiMultiply and the inverse QFT are TODO: nothing is appended
Multiply_return ==
    /\ fn = "Multiply"
    /\ pc = "body"
    /\ pc' = "done"
    /\ ret' = circ
    /\ UNCHANGED <<fn, args, locals, circ>>

(* ------------------------------ factorize ----------------------------- *)

factorize_call ==
    /\ fn = "idle"
    /\ \E N \in (0 - 1)..MaxN, K \in 0..MaxIter,
          nx \in (0 - 1)..MaxReg, ny \in (0 - 1)..MaxReg :
           args' = [N |-> N, K |-> K, nx |-> nx, ny |-> ny]
    /\ fn' = "factorize"
    /\ pc' = "alloc"
    /\ locals' = Idle
    /\ UNCHANGED <<circ, ret>>

\* prepare registers
factorize_alloc ==
    /\ fn = "factorize"
    /\ pc = "alloc"
    /\ LET nx == args.nx
           ny == args.ny
           nz == nx + ny + 1
       IN locals' = [nz |-> nz,
                     X |-> PyRange(0, nx),
                     Y |-> PyRange(nx, nx + ny),
                     Z |-> PyRange(nx + ny, nx + ny + nz)]
    /\ pc' = "digits"
    /\ UNCHANGED <<fn, args, circ, ret>>

\* the characters int() is applied to: bin(N)[2:][::-1]
NjChars(N) == PyReverse(PySliceFrom2(PyBin(N)))

\* Nj = [int(b) for b in bin(N)[2:][::-1]]; a ValueError leaves factorize
factorize_digits ==
    /\ fn = "factorize"
    /\ pc = "digits"
    /\ LET cs == NjChars(args.N)
       IN IF \E n \in 1..Len(cs) : IntCharRaises(cs[n])
          THEN /\ pc' = "raised"
               /\ UNCHANGED locals
          ELSE /\ pc' = "init"
               /\ locals' = [nz |-> locals.nz, X |-> locals.X, Y |-> locals.Y,
                             Z |-> locals.Z,
                             Nj |-> [n \in 1..Len(cs) |-> IntChar(cs[n])]]
    /\ UNCHANGED <<fn, args, circ, ret>>

\* circ = Circuit(); the superposition of X, Y and the encoding of Z are TODO
factorize_init ==
    /\ fn = "factorize"
    /\ pc = "init"
    /\ circ' = <<>>
    /\ locals' = [nz |-> locals.nz, X |-> locals.X, Y |-> locals.Y, Z |-> locals.Z,
                  Nj |-> locals.Nj, k |-> 0, oracle |-> <<>>]
    /\ pc' = "loop"
    /\ UNCHANGED <<fn, args, ret>>

\* one pass of the Grover loop: the oracle (inverse multiply, phase flip,
\* multiply) and the diffusion are TODO; the body is "pass"
factorize_iter ==
    /\ fn = "factorize"
    /\ pc = "loop"
    /\ locals.k < args.K
    /\ LET oracle == <<>>
           diffusion == <<>>
       IN /\ circ' = circ \o oracle \o diffusion
          /\ locals' = [locals EXCEPT !.k = @ + 1, !.oracle = oracle]
    /\ UNCHANGED <<fn, pc, args, ret>>

\* the measurement of X is TODO; return circ
factorize_return ==
    /\ fn = "factorize"
    /\ pc = "loop"
    /\ locals.k >= args.K
    /\ pc' = "done"
    /\ ret' = circ
    /\ UNCHANGED <<fn, args, locals, circ>>

(* ------------------------ result interpretation ----------------------- *)

RECURSIVE SumShots(_)
SumShots(h) == IF Len(h) = 0 THEN 0 ELSE h[1].shots + SumShots(Tail(h))

\* res.histogram(): distinct keys of one length in the order the simulator
\* lists them, each with a positive count
Histograms ==
    UNION {
        { h \in [1..m -> [key : BitStrings(n), shots : 1..MaxShots]] :
              \A a, b \in 1..m : a # b => h[a].key # h[b].key }
        : n \in 1..MaxBits, m \in 0..MaxKeys }

RECURSIVE InsertSorted(_, _)
InsertSorted(v, s) ==
    IF Len(s) = 0 THEN <<v>>
    ELSE IF v <= s[1] THEN <<v>> \o s
    ELSE <<s[1]>> \o InsertSorted(v, Tail(s))

\* sorted(list of integers)
RECURSIVE PySorted(_)
PySorted(s) == IF Len(s) = 0 THEN <<>> ELSE InsertSorted(s[1], PySorted(Tail(s)))

\* BitString(outcome).tointeger(): the first bit is the least significant, the
\* reading the notebook uses ("1011 in binary ... 13 in decimal")
RECURSIVE tointeger(_)
tointeger(bits) ==
    IF Len(bits) = 0 THEN 0 ELSE bits[1] + 2 * tointeger(Tail(bits))

interpret_call ==
    /\ fn = "idle"
    /\ \E h \in Histograms : args' = [histogram |-> h, cstates |-> SumShots(h)]
    /\ fn' = "interpret"
    /\ pc' = "sort"
    /\ locals' = Idle
    /\ UNCHANGED <<circ, ret>>

\* sorted_results = sorted([int(bitarray.to01(), 2) for bitarray in histogram.keys()])
interpret_sort ==
    /\ fn = "interpret"
    /\ pc = "sort"
    /\ LET h == args.histogram
       IN locals' = [sorted_results |->
                         PySorted([n \in 1..Len(h) |-> PyIntBase2(to01(h[n].key))]),
                     idx |-> 1,
                     rows |-> <<>>]
    /\ pc' = "print"
    /\ UNCHANGED <<fn, args, circ, ret>>

\* one pass of "for outcome, shots in histogram.items()": one printed row;
\* the probability shots / len(res.cstates) is kept as the pair <<shots, total>>
interpret_row ==
    /\ fn = "interpret"
    /\ pc = "print"
    /\ locals.idx <= Len(args.histogram)
    /\ LET item == args.histogram[locals.idx]
           row == [bitstring |-> to01(item.key),
                   decimal |-> tointeger(item.key),
                   shots |-> item.shots,
                   probability |-> <<item.shots, args.cstates>>]
       IN locals' = [locals EXCEPT !.rows = Append(@, row), !.idx = @ + 1]
    /\ UNCHANGED <<fn, pc, args, circ, ret>>

interpret_end ==
    /\ fn = "interpret"
    /\ pc = "print"
    /\ locals.idx > Len(args.histogram)
    /\ pc' = "done"
    /\ UNCHANGED <<fn, args, locals, circ, ret>>

(* ----------------- what a circuit does to a basis state --------------- *)

\* X on every listed qubit: the bit is flipped
GateX(ins, st) ==
    [st EXCEPT !.bits = [q \in DOMAIN st.bits |->
        IF \E n \in 1..Len(ins.qubits) : ins.qubits[n] = q
        THEN 1 - st.bits[q] ELSE st.bits[q]]]

\* multicontrol Z over the listed qubits: the sign flips when all of them are 1
GateMCZ(ins, st) ==
    IF \A n \in 1..Len(ins.qubits) : st.bits[ins.qubits[n]] = 1
    THEN [st EXCEPT !.phase = 0 - @]
    ELSE st

\* Amplitude only records an amplitude in the z-register: the state is untouched
RunInstr(ins, st) ==
    CASE ins.op = "X" -> GateX(ins, st)
      [] ins.op = "MCZ" -> GateMCZ(ins, st)
      [] OTHER -> st

RECURSIVE Run(_, _)
Run(c, st) == IF Len(c) = 0 THEN st ELSE Run(Tail(c), RunInstr(c[1], st))

\* inverse(circuit) for circuits of self-inverse gates: the gates in reverse order
inverse(c) == PyReverse(c)

\* the basis state |s> of len(s) qubits, qubit q holding s[q]
BasisOf(s) == [bits |-> [q \in 0..(Len(s) - 1) |-> s[q + 1]], phase |-> 1]

\* bit n (0 = least significant) of v
BitOf(v, n) == (v \div Pow2(n)) % 2

\* the value a register holds, its first qubit the least significant bit
RECURSIVE RegValue(_, _)
RegValue(bits, R) ==
    IF Len(R) = 0 THEN 0 ELSE bits[R[1]] + 2 * RegValue(bits, Tail(R))

\* the basis state |x>|y>|z> over the registers X, Y, Z
XYZState(X, Y, Z, x, y, z) ==
    [bits |-> [q \in 0..(Len(X) + Len(Y) + Len(Z) - 1) |->
                  IF q < Len(X) THEN BitOf(x, q)
                  ELSE IF q < Len(X) + Len(Y) THEN BitOf(y, q - Len(X))
                  ELSE BitOf(z, q - Len(X) - Len(Y))],
     phase |-> 1]

(* ------------------------------- claims ------------------------------- *)

ValidSizing ==
    /\ args.nx >= 1
    /\ args.ny >= 1
    /\ args.N >= 0
    /\ args.N < Pow2(args.nx + args.ny + 1)

\* C1: in the factoring oracle with nz = nx + ny + 1 and 0 <= N < 2^nz, the
\* phase flip of one oracle application hits the basis state (x, y) if and
\* only if x * y = N.
C1_MarksExactlyFactorPairs ==
    (fn = "factorize" /\ pc \in {"loop", "done"} /\ ValidSizing /\ locals.k >= 1)
    => \A x \in 0..(Pow2(args.nx) - 1), y \in 0..(Pow2(args.ny) - 1) :
           (Run(locals.oracle,
                XYZState(locals.X, locals.Y, locals.Z, x, y, args.N)).phase = 0 - 1)
           <=> (x * y = args.N)

\* C2: every oracle application leaves X, Y and Z as it found them, and at
\* every point of the Grover loop the Z register holds N.
C2_ZHoldsN ==
    (fn = "factorize" /\ pc \in {"loop", "done"} /\ ValidSizing)
    => /\ \A x \in 0..(Pow2(args.nx) - 1), y \in 0..(Pow2(args.ny) - 1) :
              LET st == XYZState(locals.X, locals.Y, locals.Z, x, y, args.N)
              IN Run(locals.oracle, st).bits = st.bits
       /\ RegValue(Run(circ, XYZState(locals.X, locals.Y, locals.Z, 0, 0, 0)).bits,
                   locals.Z) = args.N

\* the diffusion operator over nq qubits, as one instruction
Diffusion(nq) == Instr("Diffusion", PyRange(0, nq), <<>>, 0 - 1)

RECURSIVE GroverIterations(_, _)
GroverIterations(i, n) ==
    IF i >= n THEN <<>>
    ELSE (IF args.callback THEN amplitude_callback(args.bitstring, i) ELSE <<>>)
         \o args.oracle_circ \o <<Diffusion(locals.nq)>>
         \o GroverIterations(i + 1, n)

RECURSIVE AfterSuperposition(_)
AfterSuperposition(c) ==
    IF Len(c) > 0 /\ c[1].op = "H" THEN AfterSuperposition(Tail(c)) ELSE c

\* C3: the circuit grover returns is, after the initial superposition, the
\* concatenation for i = 0 .. iterations-1 of callback(i) (when given), the
\* oracle, and one diffusion.
C3_GroverConcatenation ==
    (fn = "grover" /\ pc = "done")
    => AfterSuperposition(ret) = GroverIterations(0, args.iterations)

\* C4: with nz = nx + ny + 1, Multiply applied to |x>|y>|0> leaves x * y in Z,
\* and the inverse of Multiply applied afterwards leaves 0 in Z.
C4_MultiplyAccumulates ==
    (fn = "Multiply" /\ pc = "done")
    => \A x \in 0..(Pow2(locals.nx) - 1), y \in 0..(Pow2(locals.ny) - 1) :
           LET st == XYZState(args.X, args.Y, args.Z, x, y, 0)
               out == Run(ret, st)
           IN /\ RegValue(out.bits, args.Z) = x * y
              /\ RegValue(Run(inverse(ret), out).bits, args.Z) = 0

\* C5: oracle(b) flips the sign of the basis state b and of no other, and
\* maps every basis state to itself.
C5_OracleMarksTarget ==
    (fn = "oracle" /\ pc = "done")
    => \A s \in BitStrings(locals.nq) :
           LET out == Run(ret, BasisOf(s))
           IN /\ out.bits = BasisOf(s).bits
              /\ out.phase = IF s = args.bitstring THEN 0 - 1 ELSE 1

SeqRange(R) == {R[n] : n \in 1..Len(R)}

Contiguous(R) == \A n \in 1..(Len(R) - 1) : R[n + 1] = R[n] + 1

\* C6: for nx, ny >= 1 the registers X, Y, Z of factorize are contiguous
\* increasing runs, pairwise disjoint, and cover exactly [0, nx+ny+nx+ny+1).
C6_RegistersPartition ==
    (fn = "factorize" /\ pc # "alloc" /\ args.nx >= 1 /\ args.ny >= 1)
    => /\ Contiguous(locals.X) /\ Contiguous(locals.Y) /\ Contiguous(locals.Z)
       /\ Len(locals.X) = args.nx
       /\ Len(locals.Y) = args.ny
       /\ Len(locals.Z) = args.nx + args.ny + 1
       /\ SeqRange(locals.X) \cap SeqRange(locals.Y) = {}
       /\ SeqRange(locals.X) \cap SeqRange(locals.Z) = {}
       /\ SeqRange(locals.Y) \cap SeqRange(locals.Z) = {}
       /\ SeqRange(locals.X) \cup SeqRange(locals.Y) \cup SeqRange(locals.Z)
              = 0..(args.nx + args.ny + args.nx + args.ny + 1 - 1)

C6_Witness ==
    /\ fn = "factorize"
    /\ pc = "digits"
    /\ args.nx = 2
    /\ args.ny = 1
    /\ locals.X = <<0, 1>>
    /\ locals.Y = <<2>>
    /\ locals.Z = <<3, 4, 5, 6>>

\* C7: the digits factorize encodes N into, decoded the way the result cell
\* decodes a measured key (int(to01(), 2)), give N back.
C7_RoundTrip ==
    (fn = "factorize" /\ pc \in {"init", "loop", "done"})
    => PyIntBase2(to01(locals.Nj)) = args.N

InvalidSizing ==
    \/ args.nx <= 0
    \/ args.ny <= 0
    \/ args.N >= Pow2(args.nx + args.ny + 1)

\* C8 as claimed: with nx <= 0, ny <= 0 or N >= 2^nz, factorize creates no
\* circuit and returns none.
C8_FailsFast ==
    (fn = "factorize" /\ InvalidSizing)
    => /\ pc \notin {"init", "loop", "done"}
       /\ circ = NoCirc
       /\ ret = NoCirc

\* C8 as amended: factorize checks neither the register sizes nor the size of
\* N.  It raises only for N < 0 (the digit conversion, before the circuit is
\* created); for N >= 0 it never raises, and a call with invalid sizing that
\* ends has returned a circuit.
C8_NoValidation ==
    fn = "factorize"
    => /\ (pc = "raised" => (args.N < 0 /\ circ = NoCirc /\ ret = NoCirc))
       /\ (args.N < 0 => pc \in {"alloc", "digits", "raised"})
       /\ ((pc = "done" /\ InvalidSizing) => (ret # NoCirc /\ ret = <<>>))

C8_Witness ==
    /\ fn = "factorize"
    /\ pc = "done"
    /\ args.nx = 0
    /\ args.ny = 0 - 1
    /\ args.N = 5
    /\ ret = <<>>

\* C9: the result cell prints one row per distinct key, in non-decreasing
\* order of the keys' integer values, each with probability count / total,
\* the probabilities summing to 1.
C9_RowsSortedWithProbabilities ==
    (fn = "interpret" /\ pc = "done")
    => LET rows == locals.rows
           h == args.histogram
       IN /\ Len(rows) = Len(h)
          /\ \A a, b \in 1..Len(rows) : a # b => rows[a].bitstring # rows[b].bitstring
          /\ [n \in 1..Len(rows) |-> PyIntBase2(rows[n].bitstring)]
                 = locals.sorted_results
          /\ \A n \in 1..Len(rows) :
                 \E m \in 1..Len(h) :
                     /\ to01(h[m].key) = rows[n].bitstring
                     /\ rows[n].probability = <<h[m].shots, args.cstates>>
          /\ (Len(rows) > 0 => SumShots(rows) = args.cstates)

\* the sum over all (j, i) of max(0, nz - i - j)
GateSum(nx, ny, nz) ==
    Cardinality({t \in (0..(nx - 1)) \X (0..(ny - 1)) \X (0..(nz - 1)) :
                     t[3] >= t[1] + t[2]})

\* the loop part of C10, which the loops do satisfy: every visited (j, i, k)
\* has its exponent in [1, nz], takes the non-skip branch, and has k in [0, nz)
PhiMultiply_LoopBounds ==
    (fn = "PhiMultiply" /\ locals.visited)
    => /\ locals.e \in 1..locals.nz
       /\ locals.taken
       /\ locals.zk \in 0..(locals.nz - 1)

\* C10: every visited triple has its exponent in [1, nz], is never skipped
\* and has k in [0, nz), and PhiMultiply returns exactly
\* sum over (j, i) of max(0, nz - i - j) controlled-phase gates.
C10_PhiMultiplyGates ==
    /\ PhiMultiply_LoopBounds
    /\ (fn = "PhiMultiply" /\ pc = "done")
           => Len(ret) = GateSum(locals.nx, locals.ny, locals.nz)

Next ==
    \/ grover_call
    \/ grover_iter
    \/ grover_return
    \/ oracle_call
    \/ oracle_return
    \/ PhiMultiply_call
    \/ PhiMultiply_for_j
    \/ PhiMultiply_for_i
    \/ PhiMultiply_end_i
    \/ PhiMultiply_body
    \/ PhiMultiply_end_k
    \/ PhiMultiply_return
    \/ Multiply_call
    \/ Multiply_return
    \/ factorize_call
    \/ factorize_alloc
    \/ factorize_digits
    \/ factorize_init
    \/ factorize_iter
    \/ factorize_return
    \/ interpret_call
    \/ interpret_sort
    \/ interpret_row
    \/ interpret_end
    \/ Return

Spec == Init /\ [][Next]_vars
====
